---- MODULE Spec2Model ----
(***************************************************************************)
(* Credential store with account lockout (src/fullon.py).                  *)
(*                                                                         *)
(* DatabaseManager keeps two SQLite tables, users and login_attempts, both *)
(* keyed by username under COLLATE NOCASE.  UserInterface.cmd_register,    *)
(* cmd_login and cmd_check are the commands.  Every DatabaseManager._execute*)
(* call opens its own connection and commits: one SQL statement is one     *)
(* atomic step, and nothing wider is.                                      *)
(*                                                                         *)
(* The file-based variant (src/user_interface.py over                      *)
(* src/database_manager.py) keeps the failed logins in login_attempts.json *)
(* and is modelled next to it.                                             *)
(*                                                                         *)
(* Strings are sequences of one-character strings, so that validation and  *)
(* NOCASE folding are computed character by character.  Time is in whole   *)
(* seconds.                                                                *)
(***************************************************************************)
EXTENDS Integers, Sequences, FiniteSets, TLC

VARIABLES
    users,      \* table users: set of rows [id, username, password_hash]
    attempts,   \* table login_attempts: set of rows [username, attempt_count, last_attempt_time]
    now,        \* the wall clock, time.time()
    last,       \* what the last command of the sequential caller returned
    hist,       \* history of the sequential caller's logins, per logical username
    shadow,     \* the second run of a paired execution: [users, attempts, last]
    procs       \* concurrent callers: each one's command, position and locals

vars == <<users, attempts, now, last, hist, shadow, procs>>

---------------------------------------------------------------------------
(* Bounds of the model *)

\* number of clock advances in a run
MaxTicks == 1

\* a clock advance is one of these many seconds: elapsed times below
\* lockout_duration (0), equal to it (60) and above it (61) are all reached
TickSteps == {60, 61}
MaxTime == MaxTicks * 61

\* number of concurrent callers, and of the commands they run in all
NumProcs == 2
MaxCalls == 2

---------------------------------------------------------------------------
(* Program constants *)

max_attempts == 3
lockout_duration == 60

---------------------------------------------------------------------------
(* Characters and strings *)

UpperSeq == <<"A","B","C","D","E","F","G","H","I","J","K","L","M",
              "N","O","P","Q","R","S","T","U","V","W","X","Y","Z">>
LowerSeq == <<"a","b","c","d","e","f","g","h","i","j","k","l","m",
              "n","o","p","q","r","s","t","u","v","w","x","y","z">>
DigitSeq == <<"0","1","2","3","4","5","6","7","8","9">>

Range(s) == {s[i] : i \in DOMAIN s}

\* Python's str methods follow Unicode: a letter outside ASCII is a letter, and
\* has a case.  One such pair of letters stands for all of them.
OtherUpper == <<"É">>
OtherLower == <<"é">>

isupper(c) == c \in Range(UpperSeq) \cup Range(OtherUpper)
islower(c) == c \in Range(LowerSeq) \cup Range(OtherLower)
isdigit(c) == c \in Range(DigitSeq)

\* str.isalnum(): non-empty and every character a letter or a digit
isalnum(s) == Len(s) > 0 /\ \A i \in DOMAIN s : isupper(s[i]) \/ islower(s[i]) \/ isdigit(s[i])

\* SQLite's NOCASE collation: the 26 upper case ASCII letters fold to lower case
LowerOf == [c \in Range(UpperSeq) |-> LowerSeq[CHOOSE i \in DOMAIN UpperSeq : UpperSeq[i] = c]]
ToLower(c) == IF c \in DOMAIN LowerOf THEN LowerOf[c] ELSE c
NoCase(s) == [i \in DOMAIN s |-> ToLower(s[i])]

\* username = ? under COLLATE NOCASE
NoCaseEq(a, b) == NoCase(a) = NoCase(b)

\* Letter case as the callers understand it: two strings are case variations
\* of one username when they are equal once every letter, ASCII or not, is
\* folded to lower case.
FoldOf == [c \in Range(UpperSeq) \cup Range(OtherUpper) |->
             IF c \in Range(UpperSeq) THEN LowerOf[c]
             ELSE OtherLower[CHOOSE i \in DOMAIN OtherUpper : OtherUpper[i] = c]]
CaseFold(s) == [i \in DOMAIN s |-> IF s[i] \in DOMAIN FoldOf THEN FoldOf[s[i]] ELSE s[i]]
CaseVariations(a, b) == CaseFold(a) = CaseFold(b)

---------------------------------------------------------------------------
(* The inputs *)

bob == <<"b","o","b">>
Bob == <<"B","o","b">>
amy == <<"a","m","y">>
al == <<"a","l">>
b_b == <<"b","_","b">>

Passw0rd == <<"P","a","s","s","w","0","r","d">>
Secret12 == <<"S","e","c","r","e","t","1","2">>
short == <<"S","h","0","r","t">>
nodigits == <<"P","a","s","s","w","o","r","d">>

ValidUsernames == {bob, Bob, amy}
Usernames == ValidUsernames \cup {al, b_b}
ValidPasswords == {Passw0rd, Secret12}
Passwords == ValidPasswords \cup {short, nodigits}
Salts == {"s1", "s2"}

\* register is called with: every case variation and password of bob, under
\* either salt; amy; a username and a password that fail validation
RegisterInputs ==
    ({bob, Bob} \X ValidPasswords \X Salts)
        \cup {<<amy, Passw0rd, "s1">>, <<al, Passw0rd, "s1">>, <<bob, short, "s1">>}
\* login is called with either case variation of bob, and a right or a wrong password
LoginInputs == {bob, Bob} \X ValidPasswords
CheckInputs == {bob, Bob, amy}

\* the logical usernames: usernames up to letter case
Logical == {NoCase(u) : u \in Usernames}

---------------------------------------------------------------------------
(* DatabaseManager *)

\* Python's None; the ids of AUTOINCREMENT start at 1
None == 0

\* PasswordHasher.hash: an encoded hash carries its salt and the digest of the
\* password under that salt; the digest is one-way and never compared to text
Argon2Digest(salt, pw) == <<"argon2id", salt, pw>>
ph_hash(pw, salt) == [salt |-> salt, digest |-> Argon2Digest(salt, pw)]

\* PasswordHasher.verify: TRUE, or FALSE for VerifyMismatchError
ph_verify(stored_hash, pw) == stored_hash.digest = Argon2Digest(stored_hash.salt, pw)

validate_credentials(username, pw) ==
    IF ~isalnum(username)
    THEN [is_valid |-> FALSE, message |-> "Username must be alphanumeric."]
    ELSE IF ~(3 <= Len(username) /\ Len(username) <= 20)
    THEN [is_valid |-> FALSE, message |-> "Username must be between 3 and 20 characters."]
    ELSE IF ~(Len(pw) >= 8)
    THEN [is_valid |-> FALSE, message |-> "Password must be at least 8 characters long."]
    ELSE IF ~((\E i \in DOMAIN pw : isupper(pw[i])) /\ (\E i \in DOMAIN pw : islower(pw[i]))
              /\ (\E i \in DOMAIN pw : isdigit(pw[i])))
    THEN [is_valid |-> FALSE, message |-> "Password must contain upper, lower and digit."]
    ELSE [is_valid |-> TRUE, message |-> "Success"]

\* SELECT ... FROM users WHERE username=?  (the column collates NOCASE)
SelectUser(tbl, username) == {r \in tbl : NoCaseEq(r.username, username)}

\* InsertUser with the uniqueness of username compared case-sensitively
InsertUser_case_sensitive(tbl, username, hashed_pw) ==
    IF \E r \in tbl : r.username = username
    THEN [ok |-> FALSE, users |-> tbl]
    ELSE [ok |-> TRUE,
          users |-> tbl \cup {[id |-> Cardinality(tbl) + 1, username |-> username,
                               password_hash |-> hashed_pw]}]

\* InsertUser with no uniqueness constraint on username
InsertUser_no_constraint(tbl, username, hashed_pw) ==
    [ok |-> TRUE,
     users |-> tbl \cup {[id |-> Cardinality(tbl) + 1, username |-> username,
                          password_hash |-> hashed_pw]}]

\* InsertUser as INSERT OR REPLACE: the row of the username is overwritten
InsertUser_or_replace(tbl, username, hashed_pw) ==
    [ok |-> TRUE,
     users |-> (tbl \ {r \in tbl : NoCaseEq(r.username, username)})
                  \cup {[id |-> Cardinality(tbl) + 1, username |-> username,
                         password_hash |-> hashed_pw]}]

\* INSERT INTO users: id INTEGER PRIMARY KEY AUTOINCREMENT (no row is ever
\* deleted, so the next id is the number of rows plus one), username UNIQUE
\* COLLATE NOCASE.  ok = FALSE is sqlite3.IntegrityError, the table untouched.
\* The column created_at is written here and read nowhere; it is left out.
InsertUser(tbl, username, hashed_pw) ==
    IF SelectUser(tbl, username) # {}
    THEN [ok |-> FALSE, users |-> tbl]
    ELSE [ok |-> TRUE,
          users |-> tbl \cup {[id |-> Cardinality(tbl) + 1, username |-> username,
                               password_hash |-> hashed_pw]}]

\* register_user hashing the username where it should hash the password
register_user_hashes_username(tbl, username, pw, salt) ==
    LET v == validate_credentials(username, pw) IN
    IF ~v.is_valid
    THEN [success |-> FALSE, message |-> v.message, users |-> tbl]
    ELSE LET ins == InsertUser(tbl, username, ph_hash(username, salt)) IN
         IF ins.ok
         THEN [success |-> TRUE, message |-> "Success", users |-> ins.users]
         ELSE [success |-> FALSE, message |-> "Username already exists.", users |-> tbl]

\* register_user that inserts first and validates the format afterwards
register_user_inserts_first(tbl, username, pw, salt) ==
    LET v == validate_credentials(username, pw)
        ins == InsertUser(tbl, username, ph_hash(pw, salt))
    IN IF ~ins.ok
       THEN [success |-> FALSE, message |-> "Username already exists.", users |-> tbl]
       ELSE IF ~v.is_valid
       THEN [success |-> FALSE, message |-> v.message, users |-> ins.users]
       ELSE [success |-> TRUE, message |-> "Success", users |-> ins.users]

register_user(tbl, username, pw, salt) ==
    LET v == validate_credentials(username, pw) IN
    IF ~v.is_valid
    THEN [success |-> FALSE, message |-> v.message, users |-> tbl]
    ELSE LET ins == InsertUser(tbl, username, ph_hash(pw, salt)) IN
         IF ins.ok
         THEN [success |-> TRUE, message |-> "Success", users |-> ins.users]
         ELSE [success |-> FALSE, message |-> "Username already exists.", users |-> tbl]

verify_login(tbl, username, pw) ==
    LET result == SelectUser(tbl, username) IN
    IF result # {}
    THEN LET row == CHOOSE r \in result : TRUE IN
         IF ph_verify(row.password_hash, pw) THEN row.id ELSE None
    ELSE None

username_exists(tbl, username) == Cardinality(SelectUser(tbl, username)) > 0

\* SELECT attempt_count, last_attempt_time FROM login_attempts WHERE username=?
SelectAttempts(att, username) == {r \in att : NoCaseEq(r.username, username)}

\* LockoutOf without the test that the lockout has run out
LockoutOf_never_expires(row, t) ==
    IF row = {}
    THEN [is_locked |-> FALSE, seconds |-> 0]
    ELSE LET r == CHOOSE x \in row : TRUE
             time_passed == t - r.last_attempt_time
         IN IF r.attempt_count >= max_attempts
            THEN [is_locked |-> TRUE, seconds |-> lockout_duration - time_passed]
            ELSE [is_locked |-> FALSE, seconds |-> 0]

\* the decision of get_lockout_status on the row it read, at time t
LockoutOf(row, t) ==
    IF row = {}
    THEN [is_locked |-> FALSE, seconds |-> 0]
    ELSE LET r == CHOOSE x \in row : TRUE
             time_passed == t - r.last_attempt_time
         IN IF time_passed > lockout_duration
            THEN [is_locked |-> FALSE, seconds |-> 0]
            ELSE IF r.attempt_count >= max_attempts
            THEN [is_locked |-> TRUE, seconds |-> lockout_duration - time_passed]
            ELSE [is_locked |-> FALSE, seconds |-> 0]

get_lockout_status(att, username, t) == LockoutOf(SelectAttempts(att, username), t)

\* the DELETE matching username case-sensitively
handle_successful_login_case_sensitive(att, username) == {r \in att : r.username # username}

\* DELETE FROM login_attempts WHERE username=?
handle_successful_login(att, username) == att \ SelectAttempts(att, username)

\* NewCount that increments whatever the age of the row
NewCount_always_increments(row, current_time) ==
    IF row # {} THEN (CHOOSE x \in row : TRUE).attempt_count + 1 ELSE 1

\* the count handle_failed_login computes from the row it read
NewCount(row, current_time) ==
    IF row # {}
    THEN LET r == CHOOSE x \in row : TRUE IN
         IF (current_time - r.last_attempt_time) > lockout_duration
         THEN 1
         ELSE r.attempt_count + 1
    ELSE 1

\* REPLACE INTO login_attempts: username is the PRIMARY KEY COLLATE NOCASE, so
\* the row it conflicts with is deleted and the new row inserted, in one statement
ReplaceAttempt(att, username, new_count, current_time) ==
    (att \ SelectAttempts(att, username))
        \cup {[username |-> username, attempt_count |-> new_count,
               last_attempt_time |-> current_time]}

\* handle_failed_login run alone: read, compute, write
handle_failed_login(att, username, current_time) ==
    LET new_count == NewCount(SelectAttempts(att, username), current_time) IN
    [new_count |-> new_count,
     attempts |-> ReplaceAttempt(att, username, new_count, current_time)]

---------------------------------------------------------------------------
(* UserInterface: a command run alone, from its call to its return *)

\* what a command returns to its caller: ret is the exit status, out the
\* outcome, verified whether verify_login was called, id the user_id printed,
\* info the attempts remaining or the seconds to wait
Result(op, username, pw, ret, out, verified, id, info) ==
    [op |-> op, username |-> username, password |-> pw, ret |-> ret, out |-> out,
     verified |-> verified, id |-> id, info |-> info]

\* FailureReport computed from the count before this failure
FailureReport_before_count(username, pw, new_count) ==
    IF new_count - 1 >= max_attempts
    THEN Result("login", username, pw, 1, "AccountLocked", TRUE, None, lockout_duration)
    ELSE Result("login", username, pw, 1, "InvalidCredentials", TRUE, None,
                max_attempts - (new_count - 1))

\* the report of a failed verification, from the count handle_failed_login returned
FailureReport(username, pw, new_count) ==
    IF new_count >= max_attempts
    THEN Result("login", username, pw, 1, "AccountLocked", TRUE, None, lockout_duration)
    ELSE Result("login", username, pw, 1, "InvalidCredentials", TRUE, None,
                max_attempts - new_count)

LockedReport(username, pw, wait_time) ==
    Result("login", username, pw, 1, "AccountLocked", FALSE, None, wait_time)

\* cmd_login that records no failure for a username that has no account
cmd_login_skips_unknown(tbl, att, t, username, pw) ==
    LET status == get_lockout_status(att, username, t) IN
    IF status.is_locked
    THEN [res |-> LockedReport(username, pw, status.seconds), attempts |-> att]
    ELSE LET user_id == verify_login(tbl, username, pw) IN
         IF user_id # None
         THEN [res |-> Result("login", username, pw, 0, "OK", TRUE, user_id, 0),
               attempts |-> handle_successful_login(att, username)]
         ELSE IF ~username_exists(tbl, username)
         THEN [res |-> FailureReport(username, pw, 0), attempts |-> att]
         ELSE LET f == handle_failed_login(att, username, t) IN
              [res |-> FailureReport(username, pw, f.new_count), attempts |-> f.attempts]

\* cmd_login that records a failure also when the account is locked
cmd_login_counts_locked(tbl, att, t, username, pw) ==
    LET status == get_lockout_status(att, username, t) IN
    IF status.is_locked
    THEN [res |-> LockedReport(username, pw, status.seconds),
          attempts |-> handle_failed_login(att, username, t).attempts]
    ELSE LET user_id == verify_login(tbl, username, pw) IN
         IF user_id # None
         THEN [res |-> Result("login", username, pw, 0, "OK", TRUE, user_id, 0),
               attempts |-> handle_successful_login(att, username)]
         ELSE LET f == handle_failed_login(att, username, t) IN
              [res |-> FailureReport(username, pw, f.new_count), attempts |-> f.attempts]

cmd_login(tbl, att, t, username, pw) ==
    LET status == get_lockout_status(att, username, t) IN
    IF status.is_locked
    THEN [res |-> LockedReport(username, pw, status.seconds), attempts |-> att]
    ELSE LET user_id == verify_login(tbl, username, pw) IN
         IF user_id # None
         THEN [res |-> Result("login", username, pw, 0, "OK", TRUE, user_id, 0),
               attempts |-> handle_successful_login(att, username)]
         ELSE LET f == handle_failed_login(att, username, t) IN
              [res |-> FailureReport(username, pw, f.new_count), attempts |-> f.attempts]

cmd_register(tbl, username, pw, salt) ==
    LET r == register_user(tbl, username, pw, salt) IN
    IF r.success
    THEN [res |-> Result("register", username, pw, 0, "OK", FALSE,
                         (CHOOSE x \in SelectUser(r.users, username) : TRUE).id, 0),
          users |-> r.users]
    ELSE [res |-> Result("register", username, pw, 1,
                         IF r.message = "Username already exists."
                         THEN "UsernameTaken" ELSE "InvalidCredentialFormat",
                         FALSE, None, 0),
          users |-> tbl]

cmd_check(tbl, username) ==
    Result("check", username, <<>>, 0,
           IF username_exists(tbl, username) THEN "exists" ELSE "not found", FALSE, None, 0)

---------------------------------------------------------------------------
(* The sequential caller: one command at a time, each run to its return *)

NoResult == Result("none", <<>>, <<>>, 0, "none", FALSE, None, 0)

\* History of the logins, per logical username, as a caller observes them.
\* streak counts the consecutive logins that failed verification since the last
\* reset (a success, or the first failure after a lockout has run out), up to
\* max_attempts; lastFail is the time of the last of them; trigger the time of
\* the last failure that was reported as a lockout; cleared says what the last
\* successful login found: "nothing", "failures" or a "lockout"; regs counts
\* the register calls that succeeded.
NoHistory == [streak |-> 0, lastFail |-> {}, trigger |-> {}, cleared |-> "nothing", regs |-> 0]

Min(a, b) == IF a <= b THEN a ELSE b

RanOut(h, t) == h.streak >= max_attempts /\ \E f \in h.lastFail : t - f > lockout_duration

Record(h, res, t) ==
    IF res.out = "OK"
    THEN [NoHistory EXCEPT !.regs = h.regs,
                           !.cleared = IF h.trigger # {} THEN "lockout"
                                       ELSE IF h.streak > 0 THEN "failures" ELSE "nothing"]
    ELSE IF res.verified
    THEN [h EXCEPT !.streak = IF RanOut(h, t) THEN 1 ELSE Min(h.streak + 1, max_attempts),
                   !.lastFail = {t},
                   !.trigger = IF res.out = "AccountLocked" THEN {t} ELSE h.trigger]
    ELSE h

Registered(h, res) == IF res.out = "OK" THEN [h EXCEPT !.regs = @ + 1] ELSE h

ShadowInit == [users |-> {}, attempts |-> {}, last |-> NoResult]
ProcsInit == <<>>

Init ==
    /\ users = {}
    /\ attempts = {}
    /\ now = 0
    /\ last = NoResult
    /\ hist = [n \in Logical |-> NoHistory]
    /\ shadow = ShadowInit
    /\ procs = ProcsInit

Register(username, pw, salt) ==
    LET r == cmd_register(users, username, pw, salt) IN
    /\ users' = r.users
    /\ last' = r.res
    /\ hist' = [hist EXCEPT ![NoCase(username)] = Registered(@, r.res)]
    /\ UNCHANGED <<attempts, now, shadow, procs>>

Login(username, pw) ==
    LET r == cmd_login(users, attempts, now, username, pw) IN
    /\ attempts' = r.attempts
    /\ last' = r.res
    /\ hist' = [hist EXCEPT ![NoCase(username)] = Record(@, r.res, now)]
    /\ UNCHANGED <<users, now, shadow, procs>>

\* Check that asks the lockout tracker first, as a login does
Check_refused_while_locked(username) ==
    /\ last' = IF get_lockout_status(attempts, username, now).is_locked
               THEN Result("check", username, <<>>, 1, "AccountLocked", FALSE, None, 0)
               ELSE cmd_check(users, username)
    /\ UNCHANGED <<users, attempts, now, hist, shadow, procs>>

Check(username) ==
    /\ last' = cmd_check(users, username)
    /\ UNCHANGED <<users, attempts, now, hist, shadow, procs>>

\* time passes between two commands
Tick(d) ==
    /\ now + d <= MaxTime
    /\ now' = now + d
    /\ UNCHANGED <<users, attempts, last, hist, shadow, procs>>

Next ==
    \/ \E in \in RegisterInputs : Register(in[1], in[2], in[3])
    \/ \E in \in LoginInputs : Login(in[1], in[2])
    \/ \E username \in CheckInputs : Check(username)
    \/ \E d \in TickSteps : Tick(d)

Spec == Init /\ [][Next]_vars

---------------------------------------------------------------------------
(* Properties of the sequential caller *)

\* the records of a logical username, and the state the lockout tracker's
\* description gives them: an active lockout
RecordsOf(att, n) == {r \in att : NoCase(r.username) = n}
ActiveLockout(att, n, t) ==
    \E r \in RecordsOf(att, n) :
        r.attempt_count >= max_attempts /\ t - r.last_attempt_time < lockout_duration

\* this step is a login command for logical username n
LoginStep(n) == last'.op = "login" /\ NoCase(last'.username) = n /\ now' = now
RefusedAsLocked(res) == res.out = "AccountLocked" /\ ~res.verified /\ res.id = None

\* C1: once max_attempts consecutive logins with a wrong password have failed
\* for a username, every further login for it made less than lockout_duration
\* seconds after the last of those failures is refused with AccountLocked and
\* the password is not verified.
C1_LockedAfterMaxAttempts ==
    [][\A n \in Logical :
        (/\ LoginStep(n)
         /\ hist[n].streak >= max_attempts
         /\ \E f \in hist[n].lastFail : now - f < lockout_duration)
        => RefusedAsLocked(last')]_vars

\* this step is a login with the username and password of the command before
\* it, which was op and succeeded
SameCredentials(a, b) == a.username = b.username /\ a.password = b.password
LoginAfter(op) ==
    /\ last.op = op /\ last.out = "OK"
    /\ last'.op = "login" /\ SameCredentials(last', last)

\* max_attempts failures are recorded, the last one lockout_duration seconds
\* ago or less
NotYetRunOut(att, n, t) ==
    \E r \in RecordsOf(att, n) :
        r.attempt_count >= max_attempts /\ t - r.last_attempt_time <= lockout_duration

\* C2 as stated: from any state in which the username is not registered,
\* register(u, p) followed by login(u, p) succeeds with the id of the account
\* register created, and a second login returns the same id.
C2_RegisterThenLogin ==
    [][(LoginAfter("register") \/ LoginAfter("login"))
        => (last'.out = "OK" /\ last'.id = last.id)]_vars

\* C2 amended: register(u, p) followed by login(u, p) succeeds with the id of
\* the account register created, and a second login returns the same id,
\* provided the username is not locked out when login is called: failed logins
\* made for the username before it was registered count, and they lock it
\* until more than lockout_duration seconds have passed since the last of them.
C2_RegisterThenLoginUnlessLocked ==
    [][((LoginAfter("register") \/ LoginAfter("login"))
         /\ ~NotYetRunOut(attempts, NoCase(last.username), now))
        => (last'.out = "OK" /\ last'.id = last.id)]_vars

\* a login returned the id of the account that was registered second, under
\* the spelling it was registered with
C2_Witness ==
    /\ last.op = "login" /\ last.out = "OK" /\ last.id = 2
    /\ \E r \in users : r.id = 2 /\ r.username = last.username

\* C4: a successful login clears the username's lockout record entirely, and
\* failures made before a success never count: the account is locked only
\* when max_attempts consecutive failures have followed the last success.
C4_SuccessClears ==
    /\ (last.op = "login" /\ last.out = "OK")
          => RecordsOf(attempts, NoCase(last.username)) = {}
    /\ \A n \in Logical :
          /\ \A r \in RecordsOf(attempts, n) : r.attempt_count <= hist[n].streak
          /\ hist[n].streak < max_attempts => ~get_lockout_status(attempts, n, now).is_locked

\* failures, a success that cleared them, then max_attempts - 1 failures: not locked
C4_Witness ==
    \E n \in Logical :
        /\ hist[n].cleared = "failures"
        /\ hist[n].streak = max_attempts - 1
        /\ \E r \in RecordsOf(attempts, n) : r.attempt_count = max_attempts - 1
        /\ ~get_lockout_status(attempts, n, now).is_locked

\* the last failure was reported as a lockout, more than lockout_duration ago
LockoutRanOut(n) ==
    \E f \in hist[n].lastFail : hist[n].trigger = {f} /\ now - f > lockout_duration

CorrectPassword(res) ==
    \E r \in users : /\ NoCase(r.username) = NoCase(res.username)
                      /\ r.password_hash.digest = Argon2Digest(r.password_hash.salt, res.password)

C9_DuplicateRegisterFails ==
    [][(/\ last'.op = "register" /\ now' = now
        /\ validate_credentials(last'.username, last'.password).is_valid
        /\ \E r \in users : CaseVariations(r.username, last'.username))
        => (last'.out = "UsernameTaken" /\ last'.id = None /\ users' = users)]_vars

\* a register under another case variation of a registered username was refused
C9_Witness ==
    /\ last.op = "register" /\ last.out = "UsernameTaken"
    /\ \E r \in users : r.username # last.username /\ NoCase(r.username) = NoCase(last.username)

\* C10: a login on a locked username changes nothing: the lockout record and
\* the accounts table stay as they were, and repeating the call gives
\* AccountLocked again.
C10_LockedLoginChangesNothing ==
    [][\A n \in Logical :
        (LoginStep(n) /\ ActiveLockout(attempts, n, now))
        => /\ attempts' = attempts
           /\ users' = users
           /\ RefusedAsLocked(last')
           /\ RefusedAsLocked(cmd_login(users', attempts', now', last'.username,
                                        last'.password).res)]_vars

\* a login was refused as locked, with a failure count that is still max_attempts
C10_Witness ==
    /\ last.op = "login" /\ RefusedAsLocked(last)
    /\ ActiveLockout(attempts, NoCase(last.username), now)
    /\ \A r \in RecordsOf(attempts, NoCase(last.username)) : r.attempt_count = max_attempts

\* C12: check never changes state and has no lockout interaction: it leaves
\* the accounts table and the lockout table unchanged, and it reports the
\* presence of the account also while that username is locked out.
C12_CheckChangesNothing ==
    [][last'.op = "check"
        => /\ users' = users
           /\ attempts' = attempts
           /\ last'.ret = 0
           /\ last'.out \in {"exists", "not found"}
           /\ last'.out = "exists" <=> hist[NoCase(last'.username)].regs > 0]_vars

\* check found the account of a username that is locked out
C12_Witness ==
    /\ last.op = "check" /\ last.out = "exists"
    /\ ActiveLockout(attempts, NoCase(last.username), now)

\* C14: status(username) returns locked = true exactly when a record exists
\* with attempt_count >= max_attempts and now - last_attempt_time <
\* lockout_duration, and then seconds_remaining = lockout_duration - (now -
\* last_attempt_time); in every other case, elapsed time equal to
\* lockout_duration included, it returns (false, 0).
C14_StatusExact ==
    \A u \in CheckInputs :
        LET status == get_lockout_status(attempts, u, now) IN
        /\ status.is_locked <=> ActiveLockout(attempts, NoCase(u), now)
        /\ status.is_locked
              => \E r \in RecordsOf(attempts, NoCase(u)) :
                    status.seconds = lockout_duration - (now - r.last_attempt_time)
        /\ ~status.is_locked => status.seconds = 0

\* the record is Expired: max_attempts failures, lockout_duration or more ago
Expired(att, n, t) ==
    \E r \in RecordsOf(att, n) :
        r.attempt_count >= max_attempts /\ t - r.last_attempt_time >= lockout_duration

\* this step is a login for n that was not refused as locked and failed verification
FailedLoginStep(n) == LoginStep(n) /\ last'.verified /\ last'.out # "OK"

\* C15: record_failure returns and stores 1 when no record exists or when the
\* record is Expired; in every other case, i.e. for a record with
\* attempt_count < max_attempts whatever the time since its last failure, it
\* returns and stores the previous attempt_count + 1; it always stores the
\* current time as last_attempt_time.
C15_RecordFailureCounts ==
    [][\A n \in Logical :
        FailedLoginStep(n)
        => LET before == RecordsOf(attempts, n)
               expected == IF before = {} \/ Expired(attempts, n, now)
                           THEN 1
                           ELSE (CHOOSE r \in before : TRUE).attempt_count + 1
           IN /\ RecordsOf(attempts', n)
                    = {[username |-> last'.username, attempt_count |-> expected,
                        last_attempt_time |-> now]}
              /\ last' = FailureReport(last'.username, last'.password, expected)]_vars

\* C16: a login that is not locked and fails verification records exactly one
\* failure before reporting; it reports AccountLocked(lockout_duration) when
\* the resulting count reaches max_attempts and otherwise
\* InvalidCredentials(attempts_remaining) with attempts_remaining =
\* max_attempts - resulting count, which is between 1 and max_attempts - 1.
C16_FailureReported ==
    [][\A n \in Logical :
        FailedLoginStep(n)
        => /\ Cardinality(RecordsOf(attempts', n)) = 1
           /\ attempts' \ RecordsOf(attempts', n) = attempts \ RecordsOf(attempts, n)
           /\ \A r \in RecordsOf(attempts', n) :
                 /\ r.last_attempt_time = now
                 /\ \/ r.attempt_count = 1
                    \/ \E b \in RecordsOf(attempts, n) : r.attempt_count = b.attempt_count + 1
                 /\ IF r.attempt_count >= max_attempts
                    THEN last'.out = "AccountLocked" /\ last'.info = lockout_duration
                    ELSE /\ last'.out = "InvalidCredentials"
                         /\ last'.info = max_attempts - r.attempt_count
                         /\ 1 <= last'.info /\ last'.info <= max_attempts - 1
           /\ last'.ret = 1 /\ last'.id = None]_vars

\* the failure that brought the count to max_attempts was reported as a lockout
C16_Witness ==
    /\ last.op = "login" /\ last.verified /\ last.out = "AccountLocked"
    /\ last.info = lockout_duration
    /\ \E r \in RecordsOf(attempts, NoCase(last.username)) :
          r.attempt_count = max_attempts /\ r.last_attempt_time = now

\* C18: no operation updates or deletes an account: each account created by a
\* successful register keeps its id, username and password hash; login, check
\* and a failed register leave the accounts table unchanged, and the ids of
\* distinct accounts differ.
C18_AccountsImmutable ==
    [][/\ users \subseteq users'
       /\ ~(last'.op = "register" /\ last'.out = "OK") => users' = users
       /\ \A a, b \in users' : a.id = b.id => a = b
       /\ (last'.op = "register" /\ last'.out = "OK" /\ users' # users)
             => \E r \in users' \ users :
                   /\ users' = users \cup {r}
                   /\ r.id = last'.id /\ r.username = last'.username
                   /\ ph_verify(r.password_hash, last'.password)]_vars

\* a second account exists, and a register of a taken username, under a new
\* password, was refused and left the first account as it was
C18_Witness ==
    /\ Cardinality(users) = 2
    /\ last.op = "register" /\ last.out = "UsernameTaken"
    /\ \E r \in users : NoCaseEq(r.username, last.username)
                         /\ ~ph_verify(r.password_hash, last.password)

---------------------------------------------------------------------------
(* Two runs side by side: the same logins and clock advances, on a store    *)
(* where the username has an account (users, attempts, last) and on one     *)
(* where it has none (shadow).                                              *)

UserRow(id, username, pw, salt) ==
    [id |-> id, username |-> username, password_hash |-> ph_hash(pw, salt)]

\* the account of bob, under either spelling and password, alone or
\* registered after amy's; the other run has all but bob's account
EnumInit ==
    \E username \in {bob, Bob}, pw \in ValidPasswords, others \in {{}, {UserRow(1, amy, Passw0rd, "s1")}} :
        /\ users = others \cup {UserRow(Cardinality(others) + 1, username, pw, "s2")}
        /\ shadow = [users |-> others, attempts |-> {}, last |-> NoResult]
        /\ attempts = {}
        /\ now = 0
        /\ last = NoResult
        /\ hist = [n \in Logical |-> NoHistory]
        /\ procs = ProcsInit

\* the same login in both runs; in the run with the account the password is wrong
EnumLogin(username, pw) ==
    LET a == cmd_login(users, attempts, now, username, pw)
        b == cmd_login(shadow.users, shadow.attempts, now, username, pw)
    IN /\ verify_login(users, username, pw) = None
       /\ attempts' = a.attempts
       /\ last' = a.res
       /\ shadow' = [shadow EXCEPT !.attempts = b.attempts, !.last = b.res]
       /\ UNCHANGED <<users, now, hist, procs>>

EnumTick(d) ==
    /\ now + d <= MaxTime
    /\ now' = now + d
    /\ UNCHANGED <<users, attempts, last, hist, shadow, procs>>

EnumNext ==
    \/ \E in \in LoginInputs : EnumLogin(in[1], in[2])
    \/ \E d \in TickSteps : EnumTick(d)

EnumSpec == EnumInit /\ [][EnumNext]_vars

\* C3: anti-enumeration: two runs of the same logins and clock advances that
\* differ only in whether the username is registered return the same outcome
\* for every login (InvalidCredentials with the same attempts remaining, or
\* AccountLocked with the same seconds) and leave the same lockout records.
C3_UnknownUserLooksTheSame ==
    /\ last = shadow.last
    /\ attempts = shadow.attempts

\* both runs counted max_attempts failures and refuse the next login as locked
C3_Witness ==
    /\ users # shadow.users
    /\ RefusedAsLocked(last) /\ RefusedAsLocked(shadow.last)
    /\ \E r \in shadow.attempts : r.attempt_count = max_attempts

---------------------------------------------------------------------------
(* Concurrent callers.  Each caller is a process with its own                *)
(* DatabaseManager on the same database file; a command is a sequence of    *)
(* steps, one for each SQL statement (_execute connects, executes, commits) *)
(* and one for each reading of the clock, and the steps of different        *)
(* callers interleave.                                                      *)

Procs == 1..NumProcs

Idle == [pc |-> "idle", calls |-> 0, username |-> <<>>, password |-> <<>>, salt |-> "",
         row |-> {}, t |-> 0, new_count |-> 0, user_id |-> None, res |-> NoResult]

\* the callers register either spelling of bob (and a username that fails
\* validation) and log in as bob with a right or a wrong password
ConcRegisterInputs == {<<bob, Passw0rd, "s1">>, <<Bob, Secret12, "s2">>, <<al, Passw0rd, "s1">>}
ConcLoginInputs == {<<bob, Passw0rd>>, <<Bob, Secret12>>}

\* the database when the callers start: bob registered or not, with no failed
\* login or with max_attempts - 1 of them just made
ConcInit ==
    \E registered \in BOOLEAN, failed \in {0, max_attempts - 1} :
        /\ users = IF registered THEN {UserRow(1, bob, Passw0rd, "s1")} ELSE {}
        /\ attempts = IF failed > 0
                      THEN {[username |-> bob, attempt_count |-> failed, last_attempt_time |-> 0]}
                      ELSE {}
        /\ now = 0
        /\ last = NoResult
        /\ hist = [n \in Logical |->
                     IF n = NoCase(bob)
                     THEN [NoHistory EXCEPT !.streak = failed,
                                            !.lastFail = IF failed > 0 THEN {0} ELSE {},
                                            !.regs = IF registered THEN 1 ELSE 0]
                     ELSE NoHistory]
        /\ shadow = ShadowInit
        /\ procs = [p \in Procs |-> Idle]

\* a caller starts a command when it runs none; the callers are alike, so
\* caller p + 1 starts its first command after caller p started one
RECURSIVE Calls(_)
Calls(p) == IF p = 0 THEN 0 ELSE procs[p].calls + Calls(p - 1)
Ready(p) ==
    /\ procs[p].pc \in {"idle", "done"}
    /\ Calls(NumProcs) < MaxCalls
    /\ p > 1 => procs[p - 1].calls > 0

Begin(p, username, pw, salt, pc) ==
    [Idle EXCEPT !.pc = pc, !.calls = procs[p].calls + 1, !.username = username,
                 !.password = pw, !.salt = salt]
Finish(p, res) == [Idle EXCEPT !.pc = "done", !.calls = procs[p].calls, !.res = res]

\* cmd_register, register_user: validation and hashing touch no shared state
CallRegister(p, username, pw, salt) ==
    /\ Ready(p)
    /\ LET v == validate_credentials(username, pw) IN
       procs' = [procs EXCEPT ![p] =
                   IF v.is_valid
                   THEN Begin(p, username, pw, salt, "insert")
                   ELSE [Begin(p, username, pw, salt, "done") EXCEPT
                            !.res = Result("register", username, pw, 1,
                                           "InvalidCredentialFormat", FALSE, None, 0)]]
    /\ UNCHANGED <<users, attempts, now, last, hist, shadow>>

\* register_user: the INSERT, or sqlite3.IntegrityError
Insert(p) ==
    /\ procs[p].pc = "insert"
    /\ LET c == procs[p]
           ins == InsertUser(users, c.username, ph_hash(c.password, c.salt))
       IN /\ users' = ins.users
          /\ procs' = [procs EXCEPT ![p] =
                Finish(p, IF ins.ok
                          THEN Result("register", c.username, c.password, 0, "OK", FALSE,
                                      (CHOOSE x \in ins.users \ users : TRUE).id, 0)
                          ELSE Result("register", c.username, c.password, 1, "UsernameTaken",
                                      FALSE, None, 0))]
          /\ hist' = [hist EXCEPT ![NoCase(c.username)] =
                        IF ins.ok THEN [@ EXCEPT !.regs = @ + 1] ELSE @]
    /\ UNCHANGED <<attempts, now, last, shadow>>

CallLogin(p, username, pw) ==
    /\ Ready(p)
    /\ procs' = [procs EXCEPT ![p] = Begin(p, username, pw, "", "status_select")]
    /\ UNCHANGED <<users, attempts, now, last, hist, shadow>>

\* get_lockout_status: the SELECT
StatusSelect(p) ==
    /\ procs[p].pc = "status_select"
    /\ procs' = [procs EXCEPT ![p].pc = "status_time",
                              ![p].row = SelectAttempts(attempts, procs[p].username)]
    /\ UNCHANGED <<users, attempts, now, last, hist, shadow>>

\* get_lockout_status: time.time() and the decision; cmd_login returns if locked
StatusTime(p) ==
    /\ procs[p].pc = "status_time"
    /\ LET c == procs[p]
           status == LockoutOf(c.row, now)
       IN procs' = [procs EXCEPT ![p] =
                      IF status.is_locked
                      THEN Finish(p, LockedReport(c.username, c.password, status.seconds))
                      ELSE [c EXCEPT !.pc = "verify", !.row = {}]]
    /\ UNCHANGED <<users, attempts, now, last, hist, shadow>>

\* verify_login: the SELECT on users, and PasswordHasher.verify
Verify(p) ==
    /\ procs[p].pc = "verify"
    /\ LET c == procs[p]
           user_id == verify_login(users, c.username, c.password)
       IN procs' = [procs EXCEPT ![p].user_id = user_id,
                                 ![p].pc = IF user_id # None THEN "delete" ELSE "fail_time"]
    /\ UNCHANGED <<users, attempts, now, last, hist, shadow>>

\* handle_successful_login: the DELETE; cmd_login returns the user_id
Delete(p) ==
    /\ procs[p].pc = "delete"
    /\ LET c == procs[p] IN
       /\ attempts' = handle_successful_login(attempts, c.username)
       /\ procs' = [procs EXCEPT ![p] =
                      Finish(p, Result("login", c.username, c.password, 0, "OK", TRUE,
                                       c.user_id, 0))]
       /\ hist' = [hist EXCEPT ![NoCase(c.username)] =
                     [NoHistory EXCEPT !.regs = hist[NoCase(c.username)].regs]]
    /\ UNCHANGED <<users, now, last, shadow>>

\* handle_failed_login: current_time = time.time()
FailTime(p) ==
    /\ procs[p].pc = "fail_time"
    /\ procs' = [procs EXCEPT ![p].pc = "fail_select", ![p].t = now]
    /\ UNCHANGED <<users, attempts, now, last, hist, shadow>>

\* handle_failed_login: the SELECT, and new_count
FailSelect(p) ==
    /\ procs[p].pc = "fail_select"
    /\ procs' = [procs EXCEPT ![p].pc = "fail_replace",
                   ![p].new_count = NewCount(SelectAttempts(attempts, procs[p].username),
                                             procs[p].t)]
    /\ UNCHANGED <<users, attempts, now, last, hist, shadow>>

\* the failures an upsert, one atomic read-modify-write, would have counted
Counted(h, t) ==
    [h EXCEPT !.streak = IF \E f \in h.lastFail : t - f > lockout_duration THEN 1 ELSE @ + 1,
              !.lastFail = {t}]

\* handle_failed_login: the REPLACE; cmd_login reports the failure
FailReplace(p) ==
    /\ procs[p].pc = "fail_replace"
    /\ LET c == procs[p] IN
       /\ attempts' = ReplaceAttempt(attempts, c.username, c.new_count, c.t)
       /\ procs' = [procs EXCEPT ![p] =
                      Finish(p, FailureReport(c.username, c.password, c.new_count))]
       /\ hist' = [hist EXCEPT ![NoCase(c.username)] = Counted(@, c.t)]
    /\ UNCHANGED <<users, now, last, shadow>>

ConcTick(d) ==
    /\ now + d <= MaxTime
    /\ now' = now + d
    /\ UNCHANGED <<users, attempts, last, hist, shadow, procs>>

ConcNext ==
    \/ \E p \in Procs, in \in ConcRegisterInputs : CallRegister(p, in[1], in[2], in[3])
    \/ \E p \in Procs, in \in ConcLoginInputs : CallLogin(p, in[1], in[2])
    \/ \E p \in Procs : Insert(p)
    \/ \E p \in Procs : StatusSelect(p)
    \/ \E p \in Procs : StatusTime(p)
    \/ \E p \in Procs : Verify(p)
    \/ \E p \in Procs : Delete(p)
    \/ \E p \in Procs : FailTime(p)
    \/ \E p \in Procs : FailSelect(p)
    \/ \E p \in Procs : FailReplace(p)
    \/ \E d \in TickSteps : ConcTick(d)

ConcSpec == ConcInit /\ [][ConcNext]_vars

---------------------------------------------------------------------------
(* Properties of the concurrent callers *)

AccountsOf(tbl, n) == {r \in tbl : NoCase(r.username) = n}
Returned(p, op, n) ==
    procs[p].pc = "done" /\ procs[p].res.op = op /\ NoCase(procs[p].res.username) = n

\* Registers of spellings that differ in ASCII letters only: when register
\* calls with valid format for one such username run concurrently, exactly one
\* succeeds and the others fail with UsernameTaken, and there is at most one
\* account for it in every reachable state.
C7_OneRegistrationWins ==
    \A n \in Logical :
        /\ Cardinality(AccountsOf(users, n)) <= 1
        /\ Cardinality(AccountsOf(users, n)) = hist[n].regs
        /\ \A p \in Procs :
              (/\ Returned(p, "register", n)
               /\ validate_credentials(procs[p].res.username, procs[p].res.password).is_valid)
              => /\ hist[n].regs = 1
                 /\ procs[p].res.out \in {"OK", "UsernameTaken"}
                 /\ procs[p].res.out = "OK"
                       => \E r \in AccountsOf(users, n) :
                             r.id = procs[p].res.id /\ r.username = procs[p].res.username

\* two registers of one username overlapped: the caller that started second
\* inserted first, and the first was refused
C7_Witness ==
    /\ NumProcs >= 2
    /\ hist[NoCase(bob)].regs = 1
    /\ Returned(1, "register", NoCase(bob)) /\ procs[1].calls = 1
    /\ procs[1].res.out = "UsernameTaken"
    /\ Returned(2, "register", NoCase(bob)) /\ procs[2].res.out = "OK"

\* caller p returned from a login for n that passed the lockout check and
\* failed verification
FailedLogin(p, n) ==
    Returned(p, "login", n) /\ procs[p].res.verified /\ procs[p].res.out # "OK"

\* C8: when several logins with a wrong password for one username run
\* concurrently, the stored attempt_count afterwards is the count before plus
\* the number of those calls (a count that a lockout which ran out restarts):
\* no increment is lost and none is applied twice.
C8_NoLostIncrement ==
    \A n \in Logical :
        (\A p \in Procs : FailedLogin(p, n))
        => \A r \in RecordsOf(attempts, n) : r.attempt_count = hist[n].streak

\* C17: record_success and record_failure are atomic with respect to each
\* other: when a successful login and a failed login for one username overlap,
\* the stored record afterwards is one that a serial order of the two calls
\* produces: no record, or attempt_count = 1 from a failure counted after the
\* clear; a failure never writes back a count computed from a record that the
\* success has already deleted.
C17_SuccessAndFailureSerial ==
    \A n \in Logical : \A p, q \in Procs :
        (/\ Returned(p, "login", n) /\ procs[p].res.out = "OK"
         /\ FailedLogin(q, n)
         /\ \A o \in Procs : procs[o].calls = IF o \in {p, q} THEN 1 ELSE 0)
        => \A r \in RecordsOf(attempts, n) : r.attempt_count = 1

\* C23: under any interleaving of concurrent login calls for one username, no
\* login returns success at a moment when the stored lockout record denotes an
\* active lockout; in particular a login that passed the lockout check before
\* another login's failure locked the account does not then succeed and delete
\* the lockout record.
C23_NoSuccessWhileLocked ==
    [][\A p \in Procs :
        (/\ procs[p].pc = "delete" /\ procs'[p].pc = "done"
         /\ procs'[p].res.out = "OK")
        => ~ActiveLockout(attempts, NoCase(procs[p].username), now)]_vars

\* C24: in every reachable state, under any interleaving of concurrent login
\* calls, every stored lockout record has 1 <= attempt_count <= max_attempts.
C24_CountWithinBounds ==
    \A r \in attempts : 1 <= r.attempt_count /\ r.attempt_count <= max_attempts

---------------------------------------------------------------------------
(* Formats and spellings: register and check called with usernames and      *)
(* passwords of every format, on a store that has seen failed logins or not *)

Repeat(c, n) == [i \in 1..n |-> c]

empty == <<>>
long21 == Repeat("x", 21)
Eva == <<"É","v","a">>
eva == <<"é","v","a">>

noupper == <<"p","a","s","s","w","0","r","d">>
nolower == <<"P","A","S","S","W","0","R","D">>

FormatUsernames == {empty, al, b_b, long21, bob, Bob, Eva, eva}
FormatPasswords == {empty, short, noupper, nolower, nodigits, Passw0rd}

\* login_attempts of a new store after k logins for bob that failed at time 0
RECURSIVE AfterFailures(_)
AfterFailures(k) ==
    IF k = 0 THEN {} ELSE cmd_login({}, AfterFailures(k - 1), 0, bob, Passw0rd).attempts

\* the store is new, or max_attempts logins have just failed for bob
FormatInit ==
    \E failed \in {0, max_attempts} :
        /\ users = {}
        /\ attempts = AfterFailures(failed)
        /\ now = 0
        /\ last = NoResult
        /\ hist = [n \in Logical |-> NoHistory]
        /\ shadow = ShadowInit
        /\ procs = ProcsInit

FormatRegister(username, pw, salt) ==
    LET r == cmd_register(users, username, pw, salt) IN
    /\ users' = r.users
    /\ last' = r.res
    /\ UNCHANGED <<attempts, now, hist, shadow, procs>>

FormatCheck(username) ==
    /\ last' = cmd_check(users, username)
    /\ UNCHANGED <<users, attempts, now, hist, shadow, procs>>

FormatNext ==
    \/ \E username \in FormatUsernames, pw \in FormatPasswords : FormatRegister(username, pw, "s1")
    \/ \E username \in FormatUsernames : FormatCheck(username)

FormatSpec == FormatInit /\ [][FormatNext]_vars

\* the format rules as the callers read them
BadUsername(u) ==
    \/ Len(u) = 0
    \/ \E i \in DOMAIN u : ~(isupper(u[i]) \/ islower(u[i]) \/ isdigit(u[i]))
    \/ Len(u) < 3
    \/ Len(u) > 20
BadPassword(p) ==
    \/ Len(p) < 8
    \/ \A i \in DOMAIN p : ~isupper(p[i])
    \/ \A i \in DOMAIN p : ~islower(p[i])
    \/ \A i \in DOMAIN p : ~isdigit(p[i])

\* C11: register with a username that is empty, not alphanumeric, shorter
\* than 3 or longer than 20 characters, or with a password shorter than 8
\* characters or lacking an upper case letter, a lower case letter or a digit,
\* fails with InvalidCredentialFormat and leaves the accounts table and the
\* lockout table unchanged, whether or not the username is already taken.
C11_BadFormatRefused ==
    [][(last'.op = "register" /\ (BadUsername(last'.username) \/ BadPassword(last'.password)))
        => /\ last'.out = "InvalidCredentialFormat"
           /\ last'.ret = 1
           /\ users' = users
           /\ attempts' = attempts]_vars

\* a register of a taken username with a password of bad format was refused
\* for the format, on a store that holds a lockout record
C11_Witness ==
    /\ last.op = "register" /\ last.out = "InvalidCredentialFormat"
    /\ BadPassword(last.password) /\ ~BadUsername(last.username)
    /\ \E r \in users : CaseVariations(r.username, last.username)
    /\ attempts # {}

\* C7: when register calls with valid format for the same username (up to
\* letter case) run concurrently, exactly one succeeds and the others fail
\* with UsernameTaken; there is at most one account per case-insensitive
\* username in every reachable state.
C7_OneAccountPerUsername ==
    \A a, b \in users : CaseVariations(a.username, b.username) => a = b

\* C13: check returns the same result for every case variation of a username:
\* true for all of them exactly when an account was registered under some
\* case variation of it, false for all of them otherwise.
C13_CheckIgnoresCase ==
    [][last'.op = "check"
        => /\ last'.out = "exists"
                <=> \E r \in users : CaseVariations(r.username, last'.username)
           /\ \A v \in FormatUsernames :
                CaseVariations(v, last'.username) => cmd_check(users', v).out = last'.out]_vars

---------------------------------------------------------------------------
(* Spellings of one username that differ in a letter outside ASCII: the     *)
(* commands are called with both                                            *)

CaseUsernames == {Eva, eva}

CaseRegister(username, pw, salt) ==
    LET r == cmd_register(users, username, pw, salt) IN
    /\ users' = r.users
    /\ last' = r.res
    /\ UNCHANGED <<attempts, now, hist, shadow, procs>>

CaseLogin(username, pw) ==
    LET r == cmd_login(users, attempts, now, username, pw) IN
    /\ attempts' = r.attempts
    /\ last' = r.res
    /\ UNCHANGED <<users, now, hist, shadow, procs>>

CaseTick(d) ==
    /\ now + d <= MaxTime
    /\ now' = now + d
    /\ UNCHANGED <<users, attempts, last, hist, shadow, procs>>

CaseNext ==
    \/ \E username \in CaseUsernames : CaseRegister(username, Passw0rd, "s1")
    \/ \E username \in CaseUsernames, pw \in ValidPasswords : CaseLogin(username, pw)
    \/ \E d \in TickSteps : CaseTick(d)

CaseSpec == Init /\ [][CaseNext]_vars

\* C19: in the database variant, lockout records are keyed case-insensitively:
\* in every reachable state there is at most one record per username up to
\* letter case, and failed logins under different case variations of one
\* username count on the same counter, so that max_attempts failures spread
\* over the variations lock all of them.
C19_OneRecordPerUsername ==
    /\ \A a, b \in attempts : CaseVariations(a.username, b.username) => a = b
    /\ \A u, v \in CaseUsernames \cup {bob, Bob} :
          CaseVariations(u, v)
          => get_lockout_status(attempts, u, now) = get_lockout_status(attempts, v, now)

---------------------------------------------------------------------------
(* The file-based variant (src/user_interface.py): the failed logins are    *)
(* kept in login_attempts.json, a dictionary from the username as typed to  *)
(* {"attempts", "timestamp"}; the accounts are in the users table of        *)
(* src/database_manager.py.  Here the variable attempts is the file: a set  *)
(* of entries [username, attempts, timestamp], one per key.                 *)

\* self.login_attempts.get(username, {}), over the defaults attempts 0, timestamp 0
file_get(file, username) ==
    IF \E e \in file : e.username = username
    THEN CHOOSE e \in file : e.username = username
    ELSE [username |-> username, attempts |-> 0, timestamp |-> 0]

\* self.login_attempts[username] = {...}; self._save_attempts()
file_put(file, username, count, timestamp) ==
    {e \in file : e.username # username}
        \cup {[username |-> username, attempts |-> count, timestamp |-> timestamp]}

\* database_manager.DatabaseManager.register_user: no validation, True or False
file_register_user(tbl, username, pw, salt) ==
    LET ins == InsertUser(tbl, username, ph_hash(pw, salt)) IN
    [success |-> ins.ok, users |-> ins.users]

file_cmd_register(tbl, username, pw, salt) ==
    LET r == file_register_user(tbl, username, pw, salt) IN
    IF r.success
    THEN [res |-> Result("register", username, pw, 0, "OK", FALSE,
                         (CHOOSE x \in SelectUser(r.users, username) : TRUE).id, 0),
          users |-> r.users]
    ELSE [res |-> Result("register", username, pw, 1, "UsernameTaken", FALSE, None, 0),
          users |-> tbl]

\* user_interface.UserInterface.cmd_login, from the file it loaded to the file it saved
file_cmd_login(tbl, file, t, username, pw) ==
    LET attempt_data == file_get(file, username)
        locked == attempt_data.attempts >= max_attempts
        time_locked == t - attempt_data.timestamp
    IN IF locked /\ time_locked < 60
       THEN [res |-> LockedReport(username, pw, 60 - time_locked), attempts |-> file]
       ELSE LET file1 == IF locked THEN file_put(file, username, 0, 0) ELSE file
                count == IF locked THEN 0 ELSE attempt_data.attempts
                user_id == verify_login(tbl, username, pw)
            IN IF user_id # None
               THEN [res |-> Result("login", username, pw, 0, "OK", TRUE, user_id, 0),
                     attempts |-> file_put(file1, username, 0, 0)]
               ELSE IF count + 1 >= max_attempts
               THEN [res |-> Result("login", username, pw, 1, "AccountLocked", TRUE, None, 60),
                     attempts |-> file_put(file1, username, count + 1, t)]
               ELSE [res |-> Result("login", username, pw, 1, "InvalidCredentials", TRUE, None,
                                    max_attempts - (count + 1)),
                     attempts |-> file_put(file1, username, count + 1, 0)]

FileRegister(username, pw, salt) ==
    LET r == file_cmd_register(users, username, pw, salt) IN
    /\ users' = r.users
    /\ last' = r.res
    /\ hist' = [hist EXCEPT ![NoCase(username)] = Registered(@, r.res)]
    /\ UNCHANGED <<attempts, now, shadow, procs>>

FileLogin(username, pw) ==
    LET r == file_cmd_login(users, attempts, now, username, pw) IN
    /\ attempts' = r.attempts
    /\ last' = r.res
    /\ hist' = [hist EXCEPT ![NoCase(username)] = Record(@, r.res, now)]
    /\ UNCHANGED <<users, now, shadow, procs>>

FileTick(d) ==
    /\ now + d <= MaxTime
    /\ now' = now + d
    /\ UNCHANGED <<users, attempts, last, hist, shadow, procs>>

FileNext ==
    \/ \E username \in {bob, Bob}, salt \in Salts : FileRegister(username, Passw0rd, salt)
    \/ \E in \in LoginInputs : FileLogin(in[1], in[2])
    \/ \E d \in TickSteps : FileTick(d)

FileSpec == Init /\ [][FileNext]_vars

\* C20: in the file-based variant, failed logins under different case
\* variations of one username count against one shared attempt record: there
\* is one record for all the variations, and after max_attempts failures
\* spread over them a login under either variation is refused as locked.
C20_FileVariationsShareRecord ==
    /\ \A a, b \in attempts : CaseVariations(a.username, b.username) => a = b
    /\ \A u, v \in {bob, Bob} :
          RefusedAsLocked(file_cmd_login(users, attempts, now, u, Passw0rd).res)
             = RefusedAsLocked(file_cmd_login(users, attempts, now, v, Passw0rd).res)

---------------------------------------------------------------------------
(* The two variants side by side: the same logins and clock advances on the *)
(* same accounts, counted in the login_attempts table (attempts, last) and  *)
(* in login_attempts.json (shadow.attempts, shadow.last)                    *)

\* bob is registered, under either spelling, or nobody is
PairInit ==
    \E accounts \in {{}, {UserRow(1, bob, Passw0rd, "s1")}, {UserRow(1, Bob, Passw0rd, "s1")}} :
        /\ users = accounts
        /\ attempts = {}
        /\ shadow = [users |-> accounts, attempts |-> {}, last |-> NoResult]
        /\ now = 0
        /\ last = NoResult
        /\ hist = [n \in Logical |-> NoHistory]
        /\ procs = ProcsInit

PairLogin(username, pw) ==
    LET a == cmd_login(users, attempts, now, username, pw)
        b == file_cmd_login(shadow.users, shadow.attempts, now, username, pw)
    IN /\ attempts' = a.attempts
       /\ last' = a.res
       /\ shadow' = [shadow EXCEPT !.attempts = b.attempts, !.last = b.res]
       /\ UNCHANGED <<users, now, hist, procs>>

PairTick(d) ==
    /\ now + d <= MaxTime
    /\ now' = now + d
    /\ UNCHANGED <<users, attempts, last, hist, shadow, procs>>

PairNext ==
    \/ \E in \in LoginInputs : PairLogin(in[1], in[2])
    \/ \E d \in TickSteps : PairTick(d)

PairSpec == PairInit /\ [][PairNext]_vars

\* the failures counted for a username: no record counts as none
TableCount(att, username) ==
    IF SelectAttempts(att, username) = {} THEN 0
    ELSE (CHOOSE r \in SelectAttempts(att, username) : TRUE).attempt_count
FileCount(file, username) == file_get(file, username).attempts

\* C22: the file-based lockout tracker and the database lockout tracker are
\* interchangeable: for every sequence of login calls and clock advances on
\* the same registered accounts, both return the same outcome for every call
\* (success, InvalidCredentials with the same attempts remaining, or
\* AccountLocked), and their stored attempt counts agree after every call.
C22_FileAndDatabaseAgree ==
    /\ last.out = shadow.last.out
    /\ last.id = shadow.last.id
    /\ last.out = "InvalidCredentials" => last.info = shadow.last.info
    /\ \A u \in {bob, Bob} : TableCount(attempts, u) = FileCount(shadow.attempts, u)

---------------------------------------------------------------------------
(* The file-based variant run by concurrent processes.  Each command is a   *)
(* process of its own: UserInterface.__init__ loads login_attempts.json     *)
(* into self.login_attempts, cmd_login works on that dictionary, and every  *)
(* _save_attempts rewrites the whole file from it.  The dictionary a        *)
(* process loaded is in the field row of the process.                       *)

\* login_attempts.json after k logins for bob that failed at time 0
RECURSIVE AfterFileFailures(_, _)
AfterFileFailures(tbl, k) ==
    IF k = 0 THEN {}
    ELSE file_cmd_login(tbl, AfterFileFailures(tbl, k - 1), 0, bob, Secret12).attempts

FileConcLoginInputs == {<<bob, Secret12>>, <<bob, Passw0rd>>, <<amy, Secret12>>}

\* bob and amy are registered; no login has failed, or max_attempts - 1 of bob's
FileConcInit ==
    \E failed \in {0, max_attempts - 1} :
        LET accounts == {UserRow(1, bob, Passw0rd, "s1"), UserRow(2, amy, Passw0rd, "s1")} IN
        /\ users = accounts
        /\ attempts = AfterFileFailures(accounts, failed)
        /\ now = 0
        /\ last = NoResult
        /\ hist = [n \in Logical |-> NoHistory]
        /\ shadow = ShadowInit
        /\ procs = [p \in Procs |-> Idle]

FileCall(p, username, pw) ==
    /\ Ready(p)
    /\ procs' = [procs EXCEPT ![p] = Begin(p, username, pw, "", "load")]
    /\ UNCHANGED <<users, attempts, now, last, hist, shadow>>

\* UserInterface.__init__: self.login_attempts = self._load_attempts()
FileLoad(p) ==
    /\ procs[p].pc = "load"
    /\ procs' = [procs EXCEPT ![p].pc = "lock_check", ![p].row = attempts]
    /\ UNCHANGED <<users, attempts, now, last, hist, shadow>>

\* cmd_login up to the verification: refused while locked; a lockout that has
\* run out is reset in the dictionary and the file rewritten
FileLockCheck(p) ==
    /\ procs[p].pc = "lock_check"
    /\ LET c == procs[p]
           attempt_data == file_get(c.row, c.username)
           time_locked == now - attempt_data.timestamp
       IN IF attempt_data.attempts >= max_attempts
          THEN IF time_locked < 60
               THEN /\ procs' = [procs EXCEPT ![p] =
                                   Finish(p, LockedReport(c.username, c.password, 60 - time_locked))]
                    /\ UNCHANGED attempts
               ELSE /\ procs' = [procs EXCEPT ![p].pc = "verify",
                                              ![p].row = file_put(c.row, c.username, 0, 0)]
                    /\ attempts' = file_put(c.row, c.username, 0, 0)
          ELSE /\ procs' = [procs EXCEPT ![p].pc = "verify"]
               /\ UNCHANGED attempts
    /\ UNCHANGED <<users, now, last, hist, shadow>>

\* cmd_login from the verification on: the dictionary is updated and the file
\* rewritten from it
FileVerifySave(p) ==
    /\ procs[p].pc = "verify"
    /\ LET c == procs[p]
           r == file_cmd_login(users, c.row, now, c.username, c.password)
       IN /\ attempts' = r.attempts
          /\ procs' = [procs EXCEPT ![p] = Finish(p, r.res)]
    /\ UNCHANGED <<users, now, last, hist, shadow>>

FileConcTick(d) ==
    /\ now + d <= MaxTime
    /\ now' = now + d
    /\ UNCHANGED <<users, attempts, last, hist, shadow, procs>>

FileConcNext ==
    \/ \E p \in Procs, in \in FileConcLoginInputs : FileCall(p, in[1], in[2])
    \/ \E p \in Procs : FileLoad(p)
    \/ \E p \in Procs : FileLockCheck(p)
    \/ \E p \in Procs : FileVerifySave(p)
    \/ \E d \in TickSteps : FileConcTick(d)

FileConcSpec == FileConcInit /\ [][FileConcNext]_vars

\* C21: in the file-based variant, a login command for one username never
\* changes or discards the stored attempt record of another username, also
\* when login commands for different usernames run concurrently as separate
\* processes that each load the file at start and rewrite it at the end.
C21_OtherRecordsKept ==
    [][\A p \in Procs :
        procs'[p] # procs[p]
        => \A e \in attempts :
              NoCase(e.username) # NoCase(procs[p].username) => e \in attempts']_vars

====
